---------------------------- MODULE Spec2Model ----------------------------
(***************************************************************************)
(* A model of kconfig_symbol_prefix_adder.py (class KConfigRenamer).        *)
(*                                                                         *)
(* Text.  A file's text is a sequence of tokens; a token is a non-empty    *)
(* tuple of one-character strings.  A word token is a maximal run of word  *)
(* characters [A-Za-z0-9_]; every other character is a token of its own.   *)
(* This is the text itself, cut at the places where the regular            *)
(* expressions of the program can tell characters apart (\s, \b, \n, #).   *)
(***************************************************************************)
EXTENDS Integers, Sequences, FiniteSets, TLC

UpperSeq == << "A","B","C","D","E","F","G","H","I","J","K","L","M",
               "N","O","P","Q","R","S","T","U","V","W","X","Y","Z" >>
LowerSeq == << "a","b","c","d","e","f","g","h","i","j","k","l","m",
               "n","o","p","q","r","s","t","u","v","w","x","y","z" >>
Upper == { UpperSeq[i] : i \in 1..26 }
Lower == { LowerSeq[i] : i \in 1..26 }
Digits == { "0","1","2","3","4","5","6","7","8","9" }
DigitSeq == << "0","1","2","3","4","5","6","7","8","9" >>
OctDigits == { "0","1","2","3","4","5","6","7" }
WordChars == Upper \cup Lower \cup Digits \cup { "_" }
\* the identifier alphabet of a symbol: [A-Z0-9_]
SymChars == Upper \cup Digits \cup { "_" }

SP == << " " >>
NL == << "\n" >>
HASH == << "#" >>

IsWord(t) == t[1] \in WordChars
IsSpace(t) == t \in { SP, NL, << "\t" >> }
IsNL(t) == t = NL
IsHash(t) == t = HASH

\* re.IGNORECASE compares characters without regard to case
FoldMap == [ ch \in Lower |-> UpperSeq[CHOOSE i \in 1..26 : LowerSeq[i] = ch] ]
FoldChar(ch) == IF ch \in Lower THEN FoldMap[ch] ELSE ch
Fold(t) == [ i \in 1..Len(t) |-> FoldChar(t[i]) ]
\* t and u are the same text but for the case of their letters
EqFold(t, u) == Len(t) = Len(u) /\ \A i \in 1..Len(t) : FoldChar(t[i]) = FoldChar(u[i])

\* the keywords the patterns name
kw_config == << "c","o","n","f","i","g" >>
kw_menuconfig == << "m","e","n","u","c","o","n","f","i","g" >>
kw_choice == << "c","h","o","i","c","e" >>
kw_if == << "i","f" >>
kw_endif == << "e","n","d","i","f" >>
kw_depends == << "d","e","p","e","n","d","s" >>
kw_on == << "o","n" >>
kw_select == << "s","e","l","e","c","t" >>
kw_default == << "d","e","f","a","u","l","t" >>
kw_imply == << "i","m","p","l","y" >>
kw_range == << "r","a","n","g","e" >>
kw_visible == << "v","i","s","i","b","l","e" >>

(***************************************************************************)
(* Positions in a text.  NextNonSpace(c, i) is the first index >= i whose  *)
(* token is not whitespace (Len(c)+1 when there is none): the end of a     *)
(* greedy \s* that starts at i.                                            *)
(***************************************************************************)
RECURSIVE NextNonSpace(_, _)
NextNonSpace(c, i) ==
  IF i > Len(c) THEN Len(c) + 1
  ELSE IF IsSpace(c[i]) THEN NextNonSpace(c, i + 1) ELSE i

\* ^ under re.MULTILINE: the start of the text or just after a newline
IsLineStart(c, q) == q = 1 \/ (q >= 2 /\ q <= Len(c) + 1 /\ IsNL(c[q - 1]))

\* $ under re.MULTILINE, seen from the last token e of a match: the end of
\* the text or just before a newline
IsLineEnd(c, e) == e = Len(c) \/ (e < Len(c) /\ IsNL(c[e + 1]))

\* (\s*)$ after token i: the greedy \s* gives back whitespace until $ holds;
\* the index of the last token matched, or 0 when no split ends a line
RECURSIVE WsToEol(_, _, _)
WsToEol(c, i, e) ==
  IF e < i THEN 0
  ELSE IF IsLineEnd(c, e) THEN e ELSE WsToEol(c, i, e - 1)
TrailEnd(c, i) == WsToEol(c, i, NextNonSpace(c, i + 1) - 1)

\* the end of the run of non-whitespace tokens that starts at i: [^\s]+
RECURSIVE RunEnd(_, _)
RunEnd(c, i) ==
  IF i + 1 <= Len(c) /\ ~IsSpace(c[i + 1]) THEN RunEnd(c, i + 1) ELSE i

\* the last token of the line that holds token i: .*?$ from i
RECURSIVE EolFrom(_, _)
EolFrom(c, i) == IF IsLineEnd(c, i) THEN i ELSE EolFrom(c, i + 1)

(***************************************************************************)
(* The replacement template.  Every rule but rule 6 builds its template as *)
(* r"\1" + new_symbol + r"\2".  When new_symbol begins with a digit, re     *)
(* reads the digit as part of the escape: \1d is group 1d, which does not  *)
(* exist (re.error), unless two octal digits follow the 1, and then \1dd   *)
(* is the character with that octal code and group 1 is not copied.        *)
(***************************************************************************)
\* chr(0o100) .. chr(0o177); "BACKTICK" and "DEL" stand for chr(0o140) and chr(0o177)
OctChars == << "@" >> \o UpperSeq \o << "[", "\\", "]", "^", "_", "BACKTICK" >>
            \o LowerSeq \o << "{", "|", "}", "~", "DEL" >>
DigitVal(d) == (CHOOSE i \in 1..10 : DigitSeq[i] = d) - 1

TemplateKind(n) ==
  IF n[1] \notin Digits THEN "group"
  ELSE IF Len(n) >= 2 /\ n[1] \in OctDigits /\ n[2] \in OctDigits THEN "octal"
  ELSE "error"

\* the text an "octal" template puts in the place of group 1 and the symbol
OctalLiteral(n) ==
  LET ch == OctChars[8 * DigitVal(n[1]) + DigitVal(n[2]) + 1]
      rest == SubSeq(n, 3, Len(n))
  IN  IF ch \in WordChars THEN << << ch >> \o rest >>
      ELSE IF rest = << >> THEN << << ch >> >>
      ELSE << << ch >>, rest >>

\* what re.sub puts in the place of a match that starts at q, has the symbol
\* at i and ends at e
Replacement(c, q, i, e, n) ==
  IF TemplateKind(n) = "octal"
  THEN OctalLiteral(n) \o SubSeq(c, i + 1, e)
  ELSE SubSeq(c, q, i - 1) \o << n >> \o SubSeq(c, i + 1, e)

(***************************************************************************)
(* The rules of rename_in_kconfig_file.  A matcher tries the pattern at    *)
(* start position q of text c for old symbol o, as re does; its result     *)
(* names the token of the symbol and the last token of the match.            *)
(***************************************************************************)
NoMatch == [ ok |-> FALSE, sym |-> 0, end |-> 0 ]
Found(i, e) == [ ok |-> TRUE, sym |-> i, end |-> e ]

\* ^(\s*KW\s+)OLD(\s*)$ for KW in kws   (rules 1, 2, 5, 7, 8 first form, 9)
MatchAnchored(c, q, kws, o) ==
  LET Try(k, i, e) ==
        IF /\ k <= Len(c) /\ c[k] \in kws
           /\ i >= k + 2 /\ i <= Len(c) /\ c[i] = o
           /\ e # 0
        THEN Found(i, e)
        ELSE NoMatch
      AtSymbol(k, i) == Try(k, i, IF i <= Len(c) THEN TrailEnd(c, i) ELSE 0)
      AtKeyword(k) == AtSymbol(k, NextNonSpace(c, k + 1))
  IN  IF ~IsLineStart(c, q) THEN NoMatch
      ELSE AtKeyword(NextNonSpace(c, q))

\* 3. ^(\s*endif\s*#\s*)OLD(\s*)$
MatchEndif(c, q, o) ==
  LET Try(k, h, i, e) ==
        IF /\ k <= Len(c) /\ c[k] = kw_endif
           /\ h <= Len(c) /\ IsHash(c[h])
           /\ i <= Len(c) /\ c[i] = o
           /\ e # 0
        THEN Found(i, e)
        ELSE NoMatch
      AtSymbol(k, h, i) == Try(k, h, i, IF i <= Len(c) THEN TrailEnd(c, i) ELSE 0)
      AtHash(k, h) == AtSymbol(k, h, NextNonSpace(c, h + 1))
      AtKeyword(k) == AtHash(k, NextNonSpace(c, k + 1))
  IN  IF ~IsLineStart(c, q) THEN NoMatch
      ELSE AtKeyword(NextNonSpace(c, q))

\* 8, second form. ^(\s*choice\s+)OLD(\b.*?)$
MatchChoiceRest(c, q, o) ==
  LET AtSymbol(k, i) ==
        IF /\ k <= Len(c) /\ c[k] = kw_choice
           /\ i >= k + 2 /\ i <= Len(c) /\ c[i] = o
        THEN Found(i, EolFrom(c, i))
        ELSE NoMatch
      AtKeyword(k) == AtSymbol(k, NextNonSpace(c, k + 1))
  IN  IF ~IsLineStart(c, q) THEN NoMatch
      ELSE AtKeyword(NextNonSpace(c, q))

\* 11, first form. ^(\s*range\s+[^\s]+\s+)OLD(\s*)$
MatchRangeHigh(c, q, o) ==
  LET Try(k, r, i, e) ==
        IF /\ k <= Len(c) /\ c[k] = kw_range
           /\ r >= k + 2 /\ r <= Len(c)
           /\ i <= Len(c) /\ c[i] = o
           /\ e # 0
        THEN Found(i, e)
        ELSE NoMatch
      AtSymbol(k, r, i) == Try(k, r, i, IF i <= Len(c) THEN TrailEnd(c, i) ELSE 0)
      AtLow(k, r) == AtSymbol(k, r, IF r <= Len(c)
                                    THEN NextNonSpace(c, RunEnd(c, r) + 1)
                                    ELSE Len(c) + 1)
      AtKeyword(k) == AtLow(k, NextNonSpace(c, k + 1))
  IN  IF ~IsLineStart(c, q) THEN NoMatch
      ELSE AtKeyword(NextNonSpace(c, q))

\* 11, second form. ^(\s*range\s+)OLD(\s+[^\s]+\s*)$
MatchRangeLow(c, q, o) ==
  LET Try(k, i, r, e) ==
        IF /\ k <= Len(c) /\ c[k] = kw_range
           /\ i >= k + 2 /\ i <= Len(c) /\ c[i] = o
           /\ r >= i + 2 /\ r <= Len(c)
           /\ e # 0
        THEN Found(i, e)
        ELSE NoMatch
      AtHigh(k, i, r) == Try(k, i, r, IF r <= Len(c)
                                      THEN TrailEnd(c, RunEnd(c, r)) ELSE 0)
      AtSymbol(k, i) == AtHigh(k, i, NextNonSpace(c, i + 1))
      AtKeyword(k) == AtSymbol(k, NextNonSpace(c, k + 1))
  IN  IF ~IsLineStart(c, q) THEN NoMatch
      ELSE AtKeyword(NextNonSpace(c, q))

\* rule 10 without the \b after the symbol: OLD may be the head of a longer word
MatchInlineIf_NoBoundary(c, q, o) ==
  LET AtSymbol(i) ==
        IF /\ EqFold(c[q], kw_if)
           /\ i >= q + 2 /\ i <= Len(c) /\ Len(c[i]) >= Len(o)
           /\ EqFold(SubSeq(c[i], 1, Len(o)), o)
        THEN Found(i, i)
        ELSE NoMatch
  IN  AtSymbol(NextNonSpace(c, q + 1))

\* 10. (\bif\s+)OLD(\b) under re.IGNORECASE
MatchInlineIf(c, q, o) ==
  LET AtSymbol(i) ==
        IF /\ EqFold(c[q], kw_if)
           /\ i >= q + 2 /\ i <= Len(c) /\ EqFold(c[i], o)
        THEN Found(i, i)
        ELSE NoMatch
  IN  AtSymbol(NextNonSpace(c, q + 1))

\* [^#\n]*\bOLD\b from s, greedy: the last token that is the old symbol
\* (letter case aside) before the first # or newline; 0 when there is none
RECURSIVE LastSymbol(_, _, _, _)
LastSymbol(c, s, o, best) ==
  IF s > Len(c) \/ IsHash(c[s]) \/ IsNL(c[s]) THEN best
  ELSE LastSymbol(c, s + 1, o, IF EqFold(c[s], o) THEN s ELSE best)

\* (\bKW1\s+KW2\s+[^#\n]*\b)OLD(\b) under re.IGNORECASE   (rules 4 and 12)
MatchClause(c, q, kw1, kw2, o) ==
  LET Try(k2, s, i) ==
        IF /\ EqFold(c[q], kw1)
           /\ k2 >= q + 2 /\ k2 <= Len(c) /\ EqFold(c[k2], kw2)
           /\ s >= k2 + 2
           /\ i # 0
        THEN Found(i, i)
        ELSE NoMatch
      AtExpr(k2, s) == Try(k2, s, LastSymbol(c, s, o, 0))
      AtSecond(k2) == AtExpr(k2, NextNonSpace(c, k2 + 1))
  IN  AtSecond(NextNonSpace(c, q + 1))

(***************************************************************************)
(* Rule 6, the multi-line depends on:                                      *)
(*   depends\s+on\s+[^#]*?(?=\n\s*(?:config|...|\S|$))                      *)
(* under MULTILINE | DOTALL | IGNORECASE.  There is no \b before depends,  *)
(* so the match may start inside a word that ends in depends.  After a     *)
(* newline, \s* followed by \S or $ can always be matched, so the          *)
(* lookahead holds at every newline and the lazy [^#]*? stops at the first *)
(* newline it can reach.                                                   *)
(***************************************************************************)
HasDependsSuffix(t) ==
  /\ IsWord(t) /\ Len(t) >= Len(kw_depends)
  /\ EqFold(SubSeq(t, Len(t) - Len(kw_depends) + 1, Len(t)), kw_depends)

\* the first newline at or after s that no # comes before; 0 when a # or the
\* end of the text comes first
RECURSIVE FirstNL(_, _)
FirstNL(c, s) ==
  IF s > Len(c) \/ IsHash(c[s]) THEN 0
  ELSE IF IsNL(c[s]) THEN s ELSE FirstNL(c, s + 1)

\* the last newline among the tokens lo..hi; 0 when there is none
RECURSIVE LastNLIn(_, _, _)
LastNLIn(c, lo, hi) ==
  IF hi < lo THEN 0
  ELSE IF IsNL(c[hi]) THEN hi ELSE LastNLIn(c, lo, hi - 1)

\* the last token of the match that starts at q, or -1 when there is none:
\* \s+ takes the whole whitespace run and [^#]*? runs to the first newline;
\* when a # or the end of the text comes first, \s+ gives whitespace back
\* down to the last newline of its own run
MultilineEnd(c, q) ==
  LET Try(k2, s, a, b) ==
        IF ~ ( /\ HasDependsSuffix(c[q])
               /\ k2 >= q + 2 /\ k2 <= Len(c) /\ EqFold(c[k2], kw_on)
               /\ s >= k2 + 2 )
        THEN -1
        ELSE IF a # 0 THEN a - 1
        ELSE IF b # 0 THEN b - 1
        ELSE -1
      AtExpr(k2, s) == Try(k2, s, FirstNL(c, s), LastNLIn(c, k2 + 2, s - 1))
      AtOn(k2) == AtExpr(k2, NextNonSpace(c, k2 + 1))
  IN  AtOn(NextNonSpace(c, q + 1))

\* replace_multiline_depends: re.sub(r"\b" + old + r"\b", new, match), with
\* no IGNORECASE: every token q..e that is the old symbol becomes the new one
\* (the first token counts from where the match starts in it)
ReplaceMultilineDepends(c, q, e, o, n) ==
  [ j \in 1..(e - q + 1) |->
      LET t == c[q + j - 1]
          cut == Len(t) - Len(kw_depends)
      IN  IF j = 1
          THEN IF SubSeq(t, cut + 1, Len(t)) = o
               THEN SubSeq(t, 1, cut) \o n ELSE t
          ELSE IF t = o THEN n ELSE t ]

(***************************************************************************)
(* re.sub: the matches are found from left to right, each search starting  *)
(* where the last match ended, and the text between them is kept.          *)
(***************************************************************************)
RuleOrder == << "1", "2", "3", "4", "5", "6", "7", "8a", "8b", "9", "10",
                "11a", "11b", "12" >>

Match(r, c, q, o) ==
  CASE r = "1" -> MatchAnchored(c, q, { kw_config, kw_menuconfig }, o)
    [] r = "2" -> MatchAnchored(c, q, { kw_if }, o)
    [] r = "3" -> MatchEndif(c, q, o)
    [] r = "4" -> MatchClause(c, q, kw_depends, kw_on, o)
    [] r = "5" -> MatchAnchored(c, q, { kw_select }, o)
    [] r = "7" -> MatchAnchored(c, q, { kw_default }, o)
    [] r = "8a" -> MatchAnchored(c, q, { kw_choice }, o)
    [] r = "8b" -> MatchChoiceRest(c, q, o)
    [] r = "9" -> MatchAnchored(c, q, { kw_imply }, o)
    [] r = "10" -> MatchInlineIf(c, q, o)
    [] r = "11a" -> MatchRangeHigh(c, q, o)
    [] r = "11b" -> MatchRangeLow(c, q, o)
    [] r = "12" -> MatchClause(c, q, kw_visible, kw_if, o)

\* the match of rule r at start position q, if any
MatchAt(r, c, q, o) ==
  LET Span(e) == IF e >= q THEN Found(0, e) ELSE NoMatch
  IN  IF r = "6" THEN Span(MultilineEnd(c, q)) ELSE Match(r, c, q, o)

\* the start positions where rule r matches
MatchStarts(r, c, o) == { p \in 1..Len(c) : MatchAt(r, c, p, o).ok }

\* the leftmost of the start positions at or after q; 0 when there is none
NextMatch(starts, q) ==
  LET rest == { p \in starts : p >= q }
  IN  IF rest = { } THEN 0
      ELSE CHOOSE p \in rest : \A p2 \in rest : p <= p2

RECURSIVE SubFrom(_, _, _, _, _, _)
SubFrom(r, c, q, starts, o, n) ==
  LET Replace(p, m) ==
        SubSeq(c, q, p - 1)
        \o ( IF r = "6" THEN ReplaceMultilineDepends(c, p, m.end, o, n)
             ELSE Replacement(c, p, m.sym, m.end, n) )
        \o SubFrom(r, c, m.end + 1, starts, o, n)
      At(p) == IF p = 0 THEN SubSeq(c, q, Len(c))
               ELSE Replace(p, MatchAt(r, c, p, o))
  IN  At(NextMatch(starts, q))

\* re.sub(pattern of rule r, template, c)
Sub(r, c, o, n) == SubFrom(r, c, 1, MatchStarts(r, c, o), o, n)

\* one turn of the loop over mappings.items(): the fourteen re.sub calls,
\* each on the text the one before it returned
RECURSIVE ApplyRules(_, _, _, _)
ApplyRules(c, k, o, n) ==
  IF k > Len(RuleOrder) THEN c
  ELSE LET Then(c2) == IF Len(c2) >= 0 THEN ApplyRules(c2, k + 1, o, n) ELSE c2
       IN  Then(Sub(RuleOrder[k], c, o, n))

\* the loop over mappings.items(); ms is the dict as the sequence of its
\* items.  A template re rejects raises re.error out of the first re.sub
RECURSIVE RenameContent(_, _, _)
RenameContent(c, ms, k) ==
  IF k > Len(ms) THEN [ raised |-> FALSE, content |-> c ]
  ELSE IF TemplateKind(ms[k][2]) = "error"
  THEN [ raised |-> TRUE, content |-> c ]
  ELSE LET Then(c2) == IF Len(c2) >= 0 THEN RenameContent(c2, ms, k + 1)
                       ELSE [ raised |-> FALSE, content |-> c2 ]
       IN  Then(ApplyRules(c, 1, ms[k][1], ms[k][2]))

(***************************************************************************)
(* find_all_subsymbols.  config_pattern and choice_pattern: at the start   *)
(* of a line, whitespace, the keyword, whitespace, the symbol followed by  *)
(* characters of [A-Z0-9_], and whitespace up to the end of a line.        *)
(***************************************************************************)
\* re.escape(symbol) + [A-Z0-9_]*, with whitespace or the end of the line
\* after it: the whole token
IsSubsymbol_AnyWord(t, symbol) ==
  /\ Len(t) >= Len(symbol)
  /\ SubSeq(t, 1, Len(symbol)) = symbol

IsSubsymbol(t, symbol) ==
  /\ Len(t) >= Len(symbol)
  /\ SubSeq(t, 1, Len(symbol)) = symbol
  /\ \A j \in (Len(symbol) + 1)..Len(t) : t[j] \in SymChars

MatchDefinition(c, q, kws, symbol) ==
  LET Try(k, i, e) ==
        IF /\ k <= Len(c) /\ c[k] \in kws
           /\ i >= k + 2 /\ i <= Len(c) /\ IsSubsymbol(c[i], symbol)
           /\ e # 0
        THEN Found(i, e)
        ELSE NoMatch
      AtSymbol(k, i) == Try(k, i, IF i <= Len(c) THEN TrailEnd(c, i) ELSE 0)
      AtKeyword(k) == AtSymbol(k, NextNonSpace(c, k + 1))
  IN  IF ~IsLineStart(c, q) THEN NoMatch
      ELSE AtKeyword(NextNonSpace(c, q))

\* pattern.findall(content): the symbols of the matches, found from left to
\* right, each search starting where the last match ended
RECURSIVE FindAll(_, _, _, _)
FindAll(c, q, kws, symbol) ==
  LET Take(m) == { c[m.sym] } \cup FindAll(c, m.end + 1, kws, symbol)
      From(starts) ==
        IF starts = { } THEN { }
        ELSE Take(MatchDefinition(
                    c, CHOOSE p1 \in starts : \A p2 \in starts : p1 <= p2,
                    kws, symbol))
  IN  From({ p \in q..Len(c) : MatchDefinition(c, p, kws, symbol).ok })

\* the file names of the tree, in the order os.walk gives them
\* how many more source files a tree may hold: one chunk and one file
MaxSources == 101
\* the name of the i-th of them
SrcName(i) == "src" \o ToString(i) \o ".c"
SrcNames == { SrcName(i) : i \in 1..MaxSources }

FileNames == << "Kconfig", "Kconfig.sub", "main.c", "notes.txt" >>
               \o [ i \in 1..MaxSources |-> SrcName(i) ]
\* file == "Kconfig" or file.startswith("Kconfig.")
IsKconfigName(f) == f = "Kconfig" \/ f \in { "Kconfig.sub" }
\* file.endswith((".c", ".h")) or file == "CMakeLists.txt"
IsSourceName(f) == ~IsKconfigName(f) /\ f \in { "main.c" } \cup SrcNames

\* the files of a tree (a function from names to texts) of one kind
KconfigFiles(tree) ==
  SelectSeq(FileNames, LAMBDA f : f \in DOMAIN tree /\ IsKconfigName(f))
SourceFiles(tree) ==
  SelectSeq(FileNames, LAMBDA f : f \in DOMAIN tree /\ IsSourceName(f))

find_all_subsymbols(symbol, tree) ==
  UNION { FindAll(tree[f], 1, { kw_config, kw_menuconfig }, symbol)
            \cup FindAll(tree[f], 1, { kw_choice }, symbol)
          : f \in { g \in DOMAIN tree : IsKconfigName(g) } }

\* rename_symbol, lines 402-408: the dict of the mappings, as a function
BuildMappings(old_symbol, new_symbol, tree) ==
  [ symbol \in find_all_subsymbols(old_symbol, tree) |->
      new_symbol \o SubSeq(symbol, Len(old_symbol) + 1, Len(symbol)) ]

\* the orders in which a dict built from a set of str can give its items:
\* the order of a set of str changes with the hash seed of the process
ItemOrders(mp) ==
  LET n == Cardinality(DOMAIN mp)
      orders == { s \in [ 1..n -> DOMAIN mp ] :
                    \A i, j \in 1..n : i # j => s[i] # s[j] }
  IN  { [ i \in 1..n |-> << s[i], mp[s[i]] >> ] : s \in orders }

(***************************************************************************)
(* rename_in_kconfig_file and process_kconfig_files_with_python, on a tree *)
(* (a function from file names to texts).  Every file of the tree can be   *)
(* read and written.  A change-log entry is a record.                      *)
(***************************************************************************)
UpdatedEntry(f) == [ kind |-> "kconfig", file |-> f, count |-> 0 ]
SedEntry(k) == [ kind |-> "sed", file |-> "", count |-> k ]

rename_in_kconfig_file(tree, f, ms, dry) ==
  IF dry
  THEN [ ret |-> TRUE, raised |-> FALSE, tree |-> tree, changes |-> << >> ]
  ELSE LET Write(r) ==
             IF r.raised
             THEN [ ret |-> FALSE, raised |-> TRUE, tree |-> tree,
                    changes |-> << >> ]
             ELSE IF r.content # tree[f]
             THEN [ ret |-> TRUE, raised |-> FALSE,
                    tree |-> [ tree EXCEPT ![f] = r.content ],
                    changes |-> << UpdatedEntry(f) >> ]
             ELSE [ ret |-> FALSE, raised |-> FALSE, tree |-> tree,
                    changes |-> << >> ]
       IN  Write(RenameContent(tree[f], ms, 1))

\* the loop of lines 256-258 from the k-th file on
RECURSIVE KconfigLoop(_, _, _, _, _, _, _)
KconfigLoop(tree, names, k, ms, dry, count, changes) ==
  IF k > Len(names)
  THEN [ count |-> count, raised |-> FALSE, tree |-> tree, changes |-> changes ]
  ELSE LET Count(r) ==
             IF r.raised
             THEN [ count |-> count, raised |-> TRUE, tree |-> tree,
                    changes |-> changes ]
             ELSE KconfigLoop(r.tree, names, k + 1, ms, dry,
                              IF r.ret THEN count + 1 ELSE count,
                              changes \o r.changes)
       IN  Count(rename_in_kconfig_file(tree, names[k], ms, dry))

process_kconfig_files_with_python(tree, names, ms, dry) ==
  IF names = << >>
  THEN [ count |-> 0, raised |-> FALSE, tree |-> tree, changes |-> << >> ]
  ELSE IF dry
  THEN [ count |-> Len(names), raised |-> FALSE, tree |-> tree,
         changes |-> << >> ]
  ELSE KconfigLoop(tree, names, 1, ms, dry, 0, << >>)

(***************************************************************************)
(* create_sed_script_for_source and what sed does with the script: for     *)
(* each item, in order, s/\<CONFIG_old\>/CONFIG_new/g.                      *)
(***************************************************************************)
ConfigPrefix == << "C","O","N","F","I","G","_" >>

\* process_files_with_sed that goes on to sed in a dry run
SedStart_NoDryRun(names, dry) ==
  IF names = << >> THEN "nothing" ELSE "sed"

\* process_files_with_sed, lines 287-295: what it does before it looks for
\* sed (the script is not empty: it has a line for each mapping)
SedStart(names, dry) ==
  IF names = << >> THEN "nothing"
  ELSE IF dry THEN "dry_run"
  ELSE "sed"

RECURSIVE SedApply(_, _, _)
SedApply(c, ms, k) ==
  IF k > Len(ms) THEN c
  ELSE SedApply([ i \in 1..Len(c) |->
                    IF c[i] = ConfigPrefix \o ms[k][1]
                    THEN ConfigPrefix \o ms[k][2] ELSE c[i] ],
                ms, k + 1)

\* chunk_size, line 312
chunk_size == 100

\* files[i : i + chunk_size], for the 1-based index i
Chunk(names, i) ==
  SubSeq(names, i, IF i + chunk_size - 1 <= Len(names)
                   THEN i + chunk_size - 1 ELSE Len(names))

\* the tree after sed -i has rewritten the first done files of a chunk
SedRewrite(tree, chunk, done, ms) ==
  [ f \in DOMAIN tree |->
      IF \E j \in 1..done : chunk[j] = f THEN SedApply(tree[f], ms, 1)
      ELSE tree[f] ]

(***************************************************************************)
(* rename_from_mapping_file: the parse of one line.                        *)
(***************************************************************************)
RECURSIVE LStrip(_)
LStrip(l) == IF l # << >> /\ IsSpace(l[1]) THEN LStrip(Tail(l)) ELSE l
RECURSIVE RStrip(_)
RStrip(l) ==
  IF l # << >> /\ IsSpace(l[Len(l)]) THEN RStrip(SubSeq(l, 1, Len(l) - 1))
  ELSE l
\* str.strip()
Strip(l) == RStrip(LStrip(l))

Arrow == << SP, << "-" >>, << ">" >>, SP >>
\* the first place of " -> " in l; 0 when it is not in l
ArrowAt(l) ==
  LET at == { i \in 1..(Len(l) - 3) : SubSeq(l, i, i + 3) = Arrow }
  IN  IF at = { } THEN 0 ELSE CHOOSE i \in at : \A j \in at : i <= j

\* lines 448-462: what the loop body does with a line before it calls
\* rename_symbol
ParseLine(raw) ==
  LET Symbols(old_symbol, new_symbol) ==
        IF old_symbol = << >> \/ new_symbol = << >>
        THEN [ call |-> FALSE, why |-> "empty", old |-> << >>, new |-> << >> ]
        ELSE [ call |-> TRUE, why |-> "", old |-> old_symbol, new |-> new_symbol ]
      Split(line, a) ==
        IF a = 0
        THEN [ call |-> FALSE, why |-> "invalid", old |-> << >>, new |-> << >> ]
        ELSE Symbols(Strip(SubSeq(line, 1, a - 1)),
                     Strip(SubSeq(line, a + Len(Arrow), Len(line))))
      Line(line) ==
        IF line = << >> \/ IsHash(line[1])
        THEN [ call |-> FALSE, why |-> "skipped", old |-> << >>, new |-> << >> ]
        ELSE Split(line, ArrowAt(line))
  IN  Line(Strip(raw))

(***************************************************************************)
(* The symbols, lines and trees the model runs on.                         *)
(***************************************************************************)
FOO == << "F","O","O" >>
foo == << "f","o","o" >>
FOOBAR == << "F","O","O","B","A","R" >>
FOOBAR_X == << "F","O","O","B","A","R","_","X" >>
FOOZ == << "F","O","O","Z" >>
FOOC == << "F","O","O","C" >>
FOOD == << "F","O","O","D" >>
FOOQ == << "F","O","O","Q" >>
FOOl == << "F","O","O","l" >>
MYFOO == << "M","Y","F","O","O" >>
BAR_ == << "B","A","R","_" >>
BAR_FOO == BAR_ \o FOO
ZED == << "Z","E","D" >>
N1FOO == << "1" >> \o FOO
TAB == << "\t" >>
AND == << "&" >>
OR == << "|" >>

\* "<kw> <sym>\n"
Stmt(kw, sym) == << kw, SP, sym, NL >>
\* "\t<kw> <sym>\n"
Attr(kw, sym) == << TAB, kw, SP, sym, NL >>

\* the texts of Kconfig
KDefs4 == Stmt(kw_config, FOO) \o Stmt(kw_config, FOOBAR)
          \o Stmt(kw_config, FOOBAR_X) \o Stmt(kw_menuconfig, FOOZ)
\* config FOO / depends on foo: the symbol in another letter case
KLower == Stmt(kw_config, FOO) \o << TAB, kw_depends, SP, kw_on, SP, foo, NL >>
\* config FOO / depends on FOO && FOO # c
KTwice == Stmt(kw_config, FOO)
          \o << TAB, kw_depends, SP, kw_on, SP, FOO, SP, AND, AND, SP, FOO,
                SP, HASH, SP, << "c" >>, NL >>
\* lines that look like definitions of a subsymbol of FOO, and two that are
KEdge == Stmt(kw_config, MYFOO) \o Stmt(kw_config, FOOl)
         \o << kw_config, SP, FOOQ, SP, << "x" >>, NL >>
         \o << << "x" >>, SP, kw_config, SP, FOOQ, NL >>
         \o Stmt(kw_choice, FOOC)
         \o << kw_config, NL, FOOD, SP, NL >>

\* the texts of Kconfig.sub: uses of FOO, and a file without any
SubUses == Stmt(kw_if, FOO) \o Attr(kw_select, FOOBAR)
           \o << kw_endif, SP, HASH, SP, FOO, NL >>
SubNone == Stmt(kw_config, ZED) \o Attr(kw_default, << "y" >>)

\* main.c and notes.txt
SrcText == << ConfigPrefix \o FOO, SP, ConfigPrefix \o FOOBAR, SP,
              ConfigPrefix \o MYFOO, SP, FOO, NL >>
NotesText == Stmt(kw_config, FOOQ)

Trees ==
  { ( "Kconfig" :> KDefs4 ) @@ ( "Kconfig.sub" :> SubUses )
      @@ ( "notes.txt" :> NotesText ),
    ( "Kconfig" :> KLower ) @@ ( "Kconfig.sub" :> SubNone )
      @@ ( "notes.txt" :> NotesText ),
    ( "Kconfig" :> KEdge ) @@ ( "Kconfig.sub" :> SubNone )
      @@ ( "notes.txt" :> NotesText ),
    ( "Kconfig" :> KTwice ) @@ ( "Kconfig.sub" :> SubUses )
      @@ ( "main.c" :> SrcText ) }

\* the requests: (old_symbol, new_symbol)
Requests == { << FOO, BAR_FOO >>, << BAR_FOO, FOO >>, << FOO, N1FOO >>,
              << ZED, FOO >> }

\* the lines of a mapping file
MArrow(l, r) == << l, SP, << "-" >>, << ">" >>, SP, r, NL >>
LinePlain == MArrow(FOO, BAR_FOO)
LinePadded == << SP, SP >> \o MArrow(BAR_FOO, FOO) \o << SP, SP, NL >>
LineBlank == << NL >>
LineComment == << HASH, SP >> \o MArrow(FOO, ZED)
LineNoArrow == << FOO, SP, BAR_FOO, NL >>
LineNoNew == << FOO, SP, << "-" >>, << ">" >>, NL >>
LineDigit == MArrow(FOO, N1FOO)

\* the mapping files
MappingFiles ==
  { << >>,
    << LineComment, LineBlank >>,
    << LinePlain, LineBlank, LineComment, LineNoArrow, LineNoNew, LinePadded >>,
    << LinePadded, LinePlain >>,
    << LineNoArrow, LinePlain >>,
    << LineDigit, LinePadded >> }

\* how many times rename_symbol is called from outside
MaxCalls == 2

(***************************************************************************)
(* The state of a KConfigRenamer at work on a tree.                        *)
(***************************************************************************)
VARIABLES
  files,              \* the tree: file name -> text
  files0,             \* the tree as it was at the start
  before,             \* the tree as the last rename_symbol call found it
  dry_run,            \* self.dry_run
  changes_made,       \* self.changes_made
  mappings,           \* the dict of the last rename_symbol call, as logged
  sed_script,         \* the items of the dict in the order of the sed script
  kconfig_processed,  \* what process_kconfig_files_with_python returned last
  source_processed,   \* what process_files_with_sed returned last
  calls,              \* the rename_symbol calls made: << old, new >>
  mode,               \* "none", "single" or "mapping": who called rename_symbol
  pc,                 \* "idle", "mapping", "sed_check", "sed_run", "sed_done",
                      \* "raised"
  mfile,              \* the lines of the mapping file
  pending,            \* the lines of it not yet read by the loop
  chunk_i,            \* i of the loop over the chunks, 1-based
  attempt,            \* 1: use_extended = True, 2: use_extended = False
  processed_count,    \* processed_count of process_files_with_sed
  script_exists,      \* the temporary sed script is on disk
  sed_scripts,        \* how many temporary sed scripts were created
  sed_runs,           \* how many times subprocess.run was called
  sed_log,            \* the subprocess.run calls of sed of the last call of
                      \* process_files_with_sed that looked for sed
  ncalls,             \* how many calls came from outside
  trace               \* the calls made on one file, each with its text before and after

vars == << files, files0, before, dry_run, changes_made, mappings, sed_script,
           kconfig_processed, source_processed, calls, mode, pc, mfile,
           pending, chunk_i, attempt, processed_count, script_exists,
           sed_scripts, sed_runs, sed_log, ncalls, trace >>

sedRunVars == << chunk_i, attempt, processed_count, script_exists,
                 sed_scripts, sed_runs, sed_log >>
sedVars == << sed_script, sedRunVars >>

\* __init__: changes_made = [], dry_run = False
InitRenamer ==
  /\ dry_run = FALSE
  /\ changes_made = << >>
  /\ mappings = { }
  /\ sed_script = << >>
  /\ kconfig_processed = 0
  /\ source_processed = 0
  /\ calls = << >>
  /\ mode = "none"
  /\ pc = "idle"
  /\ mfile = << >>
  /\ pending = << >>
  /\ chunk_i = 1
  /\ attempt = 1
  /\ processed_count = 0
  /\ script_exists = FALSE
  /\ sed_scripts = 0
  /\ sed_runs = 0
  /\ sed_log = << >>
  /\ ncalls = 0
  /\ trace = << >>

Init ==
  /\ files0 \in Trees
  /\ files = files0
  /\ before = files0
  /\ InitRenamer

\* main, line 522: renamer.dry_run = args.dry_run
SetDryRun ==
  /\ pc = "idle" /\ ncalls = 0 /\ ~dry_run
  /\ dry_run' = TRUE
  /\ UNCHANGED << files, files0, before, changes_made, mappings,
                  kconfig_processed, source_processed, calls, mode, pc, mfile,
                  pending, sedVars, ncalls, trace >>

\* where control goes when rename_symbol returns
ReturnPc(m) == IF m = "mapping" THEN "mapping" ELSE "idle"

(***************************************************************************)
(* rename_symbol up to the point where process_files_with_sed runs sed.    *)
(* It leaves dry_run, mode, mfile, pending, ncalls and trace to its caller.*)
(***************************************************************************)
RenameSymbolBody(old_symbol, new_symbol, m) ==
  \E mp \in { BuildMappings(old_symbol, new_symbol, files) } :
      /\ calls' = Append(calls, << old_symbol, new_symbol >>)
      /\ before' = files
      /\ mappings' = { << k, mp[k] >> : k \in DOMAIN mp }
      /\ UNCHANGED << files0, sedRunVars >>
      /\ IF DOMAIN mp = { }
         THEN \* "No symbols found starting with ..."
              /\ pc' = ReturnPc(m)
              /\ UNCHANGED << files, changes_made, kconfig_processed,
                              source_processed, sed_script >>
         ELSE \E ms \in ItemOrders(mp) :
              \E r \in { process_kconfig_files_with_python(
                            files, KconfigFiles(files), ms, dry_run) } :
              \E src \in { SourceFiles(files) } :
                    /\ files' = r.tree
                    /\ changes_made' = changes_made \o r.changes
                    /\ IF r.raised
                       THEN /\ pc' = "raised"
                            /\ UNCHANGED << kconfig_processed, source_processed,
                                            sed_script >>
                       ELSE /\ kconfig_processed' = r.count
                            /\ IF SedStart(src, dry_run) = "nothing"
                               THEN /\ source_processed' = 0
                                    /\ pc' = ReturnPc(m)
                                    /\ UNCHANGED sed_script
                               ELSE IF SedStart(src, dry_run) = "dry_run"
                               THEN /\ source_processed' = Len(src)
                                    /\ pc' = ReturnPc(m)
                                    /\ UNCHANGED sed_script
                               ELSE /\ pc' = "sed_check"
                                    /\ sed_script' = ms
                                    /\ UNCHANGED source_processed

\* rename_symbol called by main (single-symbol mode)
RenameSymbol ==
  /\ pc = "idle" /\ ncalls < MaxCalls
  /\ \E rq \in Requests : RenameSymbolBody(rq[1], rq[2], "single")
  /\ mode' = "single"
  /\ ncalls' = ncalls + 1
  /\ UNCHANGED << dry_run, mfile, pending, trace >>

(***************************************************************************)
(* process_files_with_sed, from the check that sed is there.               *)
(***************************************************************************)
\* lines 299-309: sed --version, then the temporary script
SedCheck ==
  /\ pc = "sed_check"
  /\ sed_runs' = sed_runs + 1
  /\ sed_log' = << >>
  /\ \E available \in BOOLEAN :
       IF available
       THEN /\ script_exists' = TRUE
            /\ sed_scripts' = sed_scripts + 1
            /\ processed_count' = 0
            /\ chunk_i' = 1
            /\ attempt' = 1
            /\ pc' = "sed_run"
            /\ UNCHANGED << source_processed, sed_script >>
       ELSE /\ source_processed' = 0
            /\ sed_script' = << >>
            /\ pc' = ReturnPc(mode)
            /\ UNCHANGED << script_exists, sed_scripts, processed_count,
                            chunk_i, attempt >>
  /\ UNCHANGED << files, files0, before, dry_run, changes_made, mappings,
                  kconfig_processed, calls, mode, mfile, pending, ncalls, trace >>

\* the loop goes on with the next chunk, or ends
NextChunk ==
  /\ attempt' = 1
  /\ chunk_i' = chunk_i + chunk_size
  /\ pc' = IF chunk_i + chunk_size <= Len(SourceFiles(files))
           THEN "sed_run" ELSE "sed_done"

\* the loop over use_extended that takes its second turn whenever the
\* first one did not end with exit status 0
Retry_AnyFailure(outcome, a) == outcome # "exit0" /\ a = 1

\* lines 346-357: the loop over use_extended takes its second turn when the
\* first one (a = 1) ended with a non-zero exit status; exit status 0, a
\* timeout and an exception leave the loop
Retry(outcome, a) == outcome = "nonzero" /\ a = 1

\* how many files of a chunk of n files a run of sed that does not end well
\* may have rewritten: none, the first one, all of them
DoneCounts(n) == { k \in { 0, 1, n } : k <= n }

\* lines 322-357: one subprocess.run of sed on the chunk.  sed -i rewrites
\* the files one after the other: a run that does not end well may have
\* rewritten the first done files of the chunk
SedRun ==
  /\ pc = "sed_run"
  /\ sed_runs' = sed_runs + 1
  /\ \E chunk \in { Chunk(SourceFiles(files), chunk_i) } :
         \E outcome \in { "exit0", "nonzero", "timeout", "error" } :
         \E done \in DoneCounts(Len(chunk)) :
           /\ outcome = "exit0" => done = Len(chunk)
           /\ outcome = "error" => done = 0
           /\ files' = SedRewrite(files, chunk, done, sed_script)
           /\ processed_count' = IF outcome = "exit0"
                                 THEN processed_count + Len(chunk)
                                 ELSE processed_count
           /\ sed_log' = Append(sed_log,
                [ i |-> chunk_i, size |-> Len(chunk),
                  use_extended |-> (attempt = 1), outcome |-> outcome ])
           /\ IF Retry(outcome, attempt)
              THEN /\ attempt' = 2
                   /\ UNCHANGED << chunk_i, pc >>
              ELSE NextChunk
  /\ UNCHANGED << files0, before, dry_run, changes_made, mappings,
                  sed_script, kconfig_processed, source_processed, calls, mode,
                  mfile, pending, script_exists, sed_scripts, ncalls, trace >>

\* lines 359-373: the script is removed, the change is logged
SedDone ==
  /\ pc = "sed_done"
  /\ script_exists' = FALSE
  /\ changes_made' = IF processed_count > 0
                     THEN Append(changes_made, SedEntry(processed_count))
                     ELSE changes_made
  /\ source_processed' = processed_count
  /\ sed_script' = << >>
  /\ pc' = ReturnPc(mode)
  /\ UNCHANGED << files, files0, before, dry_run, mappings, kconfig_processed,
                  calls, mode, mfile, pending, chunk_i, attempt,
                  processed_count, sed_scripts, sed_runs, sed_log, ncalls,
                  trace >>

(***************************************************************************)
(* rename_from_mapping_file.  A symbol of a mapping line is one word.      *)
(***************************************************************************)
\* lines 440-445: the file is read
ReadMappingFile ==
  /\ pc = "idle" /\ ncalls = 0
  /\ \E lines \in MappingFiles :
       /\ mfile' = lines
       /\ pending' = lines
  /\ mode' = "mapping"
  /\ pc' = "mapping"
  /\ ncalls' = ncalls + 1
  /\ UNCHANGED << files, files0, before, dry_run, changes_made, mappings,
                  kconfig_processed, source_processed, calls, sedVars, trace >>

\* lines 447-465: one turn of the loop over the lines
MappingLine ==
  /\ pc = "mapping" /\ pending # << >>
  /\ pending' = Tail(pending)
  /\ \E p \in { ParseLine(Head(pending)) } :
         IF p.call
         THEN \E old_symbol \in { p.old[1] }, new_symbol \in { p.new[1] } :
                RenameSymbolBody(old_symbol, new_symbol, "mapping")
         ELSE UNCHANGED << files, files0, before, changes_made, mappings,
                           kconfig_processed, source_processed, calls, pc,
                           sedVars >>
  /\ UNCHANGED << dry_run, mode, mfile, ncalls, trace >>

\* the loop is over: rename_from_mapping_file returns
MappingEnd ==
  /\ pc = "mapping" /\ pending = << >>
  /\ pc' = "idle"
  /\ UNCHANGED << files, files0, before, dry_run, changes_made, mappings,
                  kconfig_processed, source_processed, calls, mode, mfile,
                  pending, sedVars, ncalls, trace >>

Next ==
  \/ SetDryRun
  \/ RenameSymbol
  \/ SedCheck
  \/ SedRun
  \/ SedDone
  \/ ReadMappingFile
  \/ MappingLine
  \/ MappingEnd

Spec == Init /\ [][Next]_vars

(***************************************************************************)
(* rename_in_kconfig_file and rename_symbol at work on one Kconfig file,   *)
(* each call put on record.                                                *)
(***************************************************************************)
X == << "X" >>
A == << "A" >>
AA == << "A","A" >>
AAA == << "A","A","A" >>
Y == << "y" >>

RECURSIVE Concat(_)
Concat(ls) == IF ls = << >> THEN << >> ELSE Head(ls) \o Concat(Tail(ls))

\* one line for each context of the rules, with sym in the place of the symbol
ContextLines(sym) ==
  << Stmt(kw_config, sym),
     Stmt(kw_menuconfig, sym),
     Stmt(kw_if, sym),
     << kw_endif, SP, HASH, SP, sym, NL >>,
     << TAB, kw_depends, SP, kw_on, SP, sym, NL >>,
     Attr(kw_select, sym),
     << TAB, kw_depends, SP, kw_on, SP, sym, SP, AND, AND, NL,
        TAB, TAB, ZED, NL >>,
     Attr(kw_default, sym),
     Stmt(kw_choice, sym),
     << kw_choice, SP, sym, SP, Y, NL >>,
     Attr(kw_imply, sym),
     << TAB, kw_default, SP, Y, SP, kw_if, SP, sym, NL >>,
     << TAB, kw_range, SP, << "0" >>, SP, sym, NL >>,
     << TAB, kw_range, SP, sym, SP, << "9" >>, NL >>,
     << TAB, kw_visible, SP, kw_if, SP, sym, NL >> >>

\* a file with the symbol once in each context
TwelveText(sym) == Concat(ContextLines(sym))

\* a depends on over three continuation lines, the symbol on the last
MultiLineText(sym) ==
  Stmt(kw_config, ZED)
  \o << TAB, kw_depends, SP, kw_on, SP, A, SP, AND, AND, NL >>
  \o << TAB, TAB, AA, SP, OR, OR, NL >>
  \o << TAB, TAB, AAA, SP, AND, AND, NL >>
  \o << TAB, TAB, sym, NL >>
  \o Attr(kw_default, Y)

\* lines with the symbol next to longer identifiers
MixedLines ==
  { << TAB, kw_depends, SP, kw_on, SP, FOOBAR, SP, AND, AND, SP, FOO, NL >>,
    << TAB, kw_depends, SP, kw_on, SP, FOO, SP, OR, OR, SP, MYFOO, NL >>,
    << TAB, kw_default, SP, FOOBAR, SP, kw_if, SP, FOO, NL >>,
    << TAB, kw_range, SP, FOO, SP, FOOBAR, NL >>,
    << TAB, kw_range, SP, MYFOO, SP, FOO, NL >> }

\* depends on FOO && FOO # c, and the same line without its end
TwiceComment ==
  << kw_depends, SP, kw_on, SP, FOO, SP, AND, AND, SP, FOO, SP, HASH, SP,
     << "c" >>, NL >>
TwiceNoNewline == << kw_depends, SP, kw_on, SP, FOO, SP, AND, AND, SP, FOO >>
\* config A / config AA
ChainText == Stmt(kw_config, A) \o Stmt(kw_config, AA)

RewriteTexts ==
  { ContextLines(sym)[k] : sym \in { FOO, FOOBAR, MYFOO },
                          k \in 1..Len(ContextLines(FOO)) }
  \cup MixedLines
  \cup { TwelveText(FOO),
         TwelveText(FOO) \o TwelveText(FOOBAR) \o TwelveText(MYFOO),
         MultiLineText(FOO), TwiceComment, TwiceNoNewline, ChainText }

\* the mappings rename_in_kconfig_file is called with
DirectMappings ==
  { << << FOO, X >> >>, << << FOO, BAR_FOO >> >>, << << FOO, N1FOO >> >>,
    << << A, AA >>, << AA, AAA >> >> }
\* the requests rename_symbol is called with
RewriteRequests == { << A, AA >>, << FOO, BAR_FOO >> }

\* how many calls are made on a file
MaxApply == 2

InitRewrite ==
  /\ files0 \in { ( "Kconfig" :> t ) : t \in RewriteTexts }
  /\ files = files0
  /\ before = files0
  /\ InitRenamer

\* rename_in_kconfig_file, called on the file
RewriteDirect ==
  /\ pc = "idle" /\ Len(trace) < MaxApply
  /\ \E ms \in DirectMappings :
       \E r \in { rename_in_kconfig_file(files, "Kconfig", ms, dry_run) } :
           /\ files' = r.tree
           /\ changes_made' = changes_made \o r.changes
           /\ pc' = IF r.raised THEN "raised" ELSE "idle"
           /\ trace' = Append(trace,
                [ kind |-> "direct", ms |-> ms, rq |-> << >>,
                  before |-> files["Kconfig"], after |-> r.tree["Kconfig"],
                  ret |-> r.ret, raised |-> r.raised ])
  /\ UNCHANGED << files0, before, dry_run, mappings, kconfig_processed,
                  source_processed, calls, mode, mfile, pending, sedVars,
                  ncalls >>

\* rename_symbol, called on the tree of the file
RewriteRequest ==
  /\ pc = "idle" /\ Len(trace) < MaxApply
  /\ \E rq \in RewriteRequests :
       /\ RenameSymbolBody(rq[1], rq[2], "single")
       /\ trace' = Append(trace,
            [ kind |-> "request", ms |-> << >>, rq |-> rq,
              before |-> files["Kconfig"], after |-> files'["Kconfig"],
              ret |-> (files' # files), raised |-> (pc' = "raised") ])
  /\ mode' = "single"
  /\ ncalls' = ncalls + 1
  /\ UNCHANGED << dry_run, mfile, pending >>

NextRewrite ==
  \/ RewriteDirect
  \/ RewriteRequest

SpecRewrite == InitRewrite /\ [][NextRewrite]_vars

(***************************************************************************)
(* process_files_with_sed, called with the source files of a tree that has *)
(* up to MaxSources of them, and with the script of a mapping.             *)
(***************************************************************************)
\* how many source files the trees have: none, one, a full chunk, more
SedSizes == { 0, 1, chunk_size, MaxSources }
SedTree(n) == [ f \in { SrcName(i) : i \in 1..n } |-> SrcText ]
\* the mappings the scripts are written from
SedScripts == { << << FOO, BAR_FOO >> >>,
                << << FOO, BAR_FOO >>, << FOOBAR, BAR_ \o FOOBAR >> >> }

InitSed ==
  /\ files0 \in { SedTree(n) : n \in SedSizes }
  /\ files = files0
  /\ before = files0
  /\ InitRenamer

\* lines 279-295: process_files_with_sed is called
SedCall ==
  /\ pc = "idle" /\ ncalls = 0
  /\ ncalls' = ncalls + 1
  /\ \E ms \in SedScripts :
     \E src \in { SourceFiles(files) } :
         IF SedStart(src, dry_run) = "nothing"
         THEN /\ source_processed' = 0
              /\ UNCHANGED << pc, sed_script >>
         ELSE IF SedStart(src, dry_run) = "dry_run"
         THEN /\ source_processed' = Len(src)
              /\ UNCHANGED << pc, sed_script >>
         ELSE /\ pc' = "sed_check"
              /\ sed_script' = ms
              /\ UNCHANGED source_processed
  /\ UNCHANGED << files, files0, before, dry_run, changes_made, mappings,
                  kconfig_processed, calls, mode, mfile, pending, sedRunVars,
                  trace >>

NextSed ==
  \/ SedCall
  \/ SedCheck
  \/ SedRun
  \/ SedDone

SpecSed == InitSed /\ [][NextSed]_vars

(***************************************************************************)
(* The properties.                                                         *)
(***************************************************************************)
LastCall == calls[Len(calls)]
KconfigNames == { "Kconfig", "Kconfig.sub" }

\* token i of text c is S followed by characters of [A-Z0-9_], it comes
\* after whitespace after a keyword that is the first word of its line, and
\* only whitespace follows it on its line
C1_Defined(c, i, S) ==
  /\ Len(c[i]) >= Len(S)
  /\ \A j \in 1..Len(c[i]) :
       IF j <= Len(S) THEN c[i][j] = S[j]
       ELSE c[i][j] \in Upper \cup Digits \cup { "_" }
  /\ \E k \in 1..(i - 2) :
       /\ c[k] \in { kw_config, kw_menuconfig, kw_choice }
       /\ \A j \in (k + 1)..(i - 1) : c[j] \in { SP, TAB, NL }
       /\ \E q \in 1..k :
            /\ q = 1 \/ c[q - 1] = NL
            /\ \A j \in q..(k - 1) : c[j] \in { SP, TAB, NL }
  /\ \E e \in i..Len(c) :
       /\ e = Len(c) \/ c[e + 1] = NL
       /\ \A j \in (i + 1)..e : c[j] \in { SP, TAB, NL }

C1_Keys(S, tree) ==
  UNION { { tree[f][i] : i \in { j \in 1..Len(tree[f]) :
                                    C1_Defined(tree[f], j, S) } }
          : f \in DOMAIN tree \cap KconfigNames }

C2_AllContextsRewritten ==
  \A k \in 1..Len(trace) :
    ( /\ trace[k].kind = "direct"
      /\ Len(trace[k].ms) = 1
      /\ trace[k].before = TwelveText(trace[k].ms[1][1]) )
    => ( /\ ~trace[k].raised
         /\ trace[k].after = TwelveText(trace[k].ms[1][2]) )

\* a longer identifier with FOO as a proper prefix or suffix
C3_Longer(t) ==
  /\ IsWord(t) /\ Len(t) > Len(FOO)
  /\ \/ SubSeq(t, 1, Len(FOO)) = FOO
     \/ SubSeq(t, Len(t) - Len(FOO) + 1, Len(t)) = FOO

\* C3: one call of rename_in_kconfig_file with the single mapping FOO -> X
\* leaves every longer identifier that has FOO as a proper prefix or suffix
\* where it was (the same token of the text) with the same characters
C3_WordBoundary ==
  \A k \in 1..Len(trace) :
    ( trace[k].kind = "direct" /\ trace[k].ms = << << FOO, X >> >> )
    => ( /\ ~trace[k].raised
         /\ Len(trace[k].after) = Len(trace[k].before)
         /\ \A i \in 1..Len(trace[k].before) :
              C3_Longer(trace[k].before[i])
              => trace[k].after[i] = trace[k].before[i] )

\* FOO -> X on the file that has FOO, FOOBAR and MYFOO in every context:
\* every FOO is rewritten
C3_AllContextsSeen ==
  \E k \in 1..Len(trace) :
    /\ trace[k].kind = "direct" /\ trace[k].ms = << << FOO, X >> >>
    /\ trace[k].before = TwelveText(FOO) \o TwelveText(FOOBAR) \o TwelveText(MYFOO)
    /\ trace[k].after = TwelveText(X) \o TwelveText(FOOBAR) \o TwelveText(MYFOO)

\* C4: a second call of rename_in_kconfig_file with the same mappings, on
\* the text the first call left, changes nothing and writes nothing
C4_Idempotent ==
  \A k \in 1..(Len(trace) - 1) :
    ( /\ trace[k].kind = "direct" /\ trace[k + 1].kind = "direct"
      /\ trace[k + 1].ms = trace[k].ms
      /\ ~trace[k].raised /\ ~trace[k + 1].raised )
    => ( trace[k + 1].after = trace[k].after /\ ~trace[k + 1].ret )

\* C5: rename_symbol(FOO, BAR_FOO) and then rename_symbol(BAR_FOO, FOO), on
\* a tree where no symbol begins with BAR_, leave every Kconfig file with
\* the text it had at the start
C5_RoundTrip ==
  ( /\ pc = "idle" /\ mode = "single" /\ ~dry_run
    /\ calls = << << FOO, BAR_FOO >>, << BAR_FOO, FOO >> >> )
  => \A f \in DOMAIN files \cap KconfigNames : files[f] = files0[f]

\* C6: one call of rename_in_kconfig_file with old -> new (new begins with
\* a letter) rewrites old on the last of three continuation lines of a
\* depends on
C6_LastContinuationLine ==
  \A k \in 1..Len(trace) :
    ( /\ trace[k].kind = "direct"
      /\ Len(trace[k].ms) = 1
      /\ trace[k].ms[1][2][1] \notin Digits
      /\ trace[k].before = MultiLineText(trace[k].ms[1][1]) )
    => trace[k].after = MultiLineText(trace[k].ms[1][2])

\* C7: with dry_run set no file of the tree changes, no sed script is
\* written, no sed process runs and changes_made stays as it was
C7_DryRunNoChange ==
  dry_run =>
    /\ files = files0
    /\ changes_made = << >>
    /\ sed_scripts = 0 /\ ~script_exists
    /\ sed_runs = 0

\* a dry run of a request that has mappings, on a tree with a source file,
\* has returned
C7_DryRunReturned ==
  /\ dry_run /\ pc = "idle" /\ calls # << >>
  /\ mappings # { }
  /\ "main.c" \in DOMAIN files
  /\ source_processed = 1

\* C8: the count process_kconfig_files_with_python returns without dry_run
\* is the count it returns with dry_run on the same tree
C8_DryRunCount ==
  ( /\ pc = "idle" /\ mode = "single" /\ ~dry_run
    /\ Len(calls) = 1 /\ mappings # { } )
  => kconfig_processed
       = process_kconfig_files_with_python(
           before, KconfigFiles(before), << >>, TRUE).count

\* the calls the lines of a mapping file ask for
C9_Asked(lines) ==
  LET asks(l) == /\ Strip(l) # << >>
                 /\ ~IsHash(Strip(l)[1])
                 /\ ArrowAt(Strip(l)) # 0
      asking == SelectSeq(lines, asks)
  IN  [ i \in 1..Len(asking) |->
          << ParseLine(asking[i]).old[1], ParseLine(asking[i]).new[1] >> ]

\* C9: when rename_from_mapping_file is over, rename_symbol has been called
\* once, in the order of the file, for each line that is not blank, is no
\* comment and has the arrow, with the trimmed texts on both sides of it
C9_OneCallPerLine ==
  ( mode = "mapping" /\ pc \in { "idle", "raised" } )
  => calls = C9_Asked(mfile)

\* C10: the text a request leaves is the text every order of the items of
\* its mapping gives
C10_OrderIndependent ==
  \A k \in 1..Len(trace) :
    ( trace[k].kind = "request" /\ ~trace[k].raised )
    => \A ms \in ItemOrders(BuildMappings(trace[k].rq[1], trace[k].rq[2],
                                          ( "Kconfig" :> trace[k].before ))) :
         RenameContent(trace[k].before, ms, 1).content = trace[k].after

\* the 1-based indexes at which the chunks of a list of n files start
C11_Starts(n) == { 1 + chunk_size * j : j \in 0..((n - 1) \div chunk_size) }

\* the runs of sed on the chunk that starts at s, in the order they were made
C11_Runs(s) == SelectSeq(sed_log, LAMBDA e : e.i = s)

\* the sizes of the chunks of starts that have a run that ended with exit
\* status 0, each chunk taken once, added up
RECURSIVE C11_Sum(_, _)
C11_Sum(starts, names) ==
  IF starts = { } THEN 0
  ELSE LET s == CHOOSE t \in starts : TRUE
       IN  ( IF \E k \in 1..Len(sed_log) :
                    sed_log[k].i = s /\ sed_log[k].outcome = "exit0"
             THEN Len(Chunk(names, s)) ELSE 0 )
           + C11_Sum(starts \ { s }, names)

\* C11: when process_files_with_sed has found sed and returns (no dry run),
\* sed has been run on every chunk of at most chunk_size files, whatever the
\* runs on the chunks before it gave; a chunk whose first run ended with a
\* non-zero exit status has had exactly one more run, a chunk whose first run
\* ended with exit status 0, timed out or raised has had no other; and the
\* count returned is the sum of the sizes of the chunks that have a run
\* that ended with exit status 0, each counted once
C11_BatchIsolation ==
  ( pc = "idle" /\ ncalls = 1 /\ sed_scripts = 1 /\ ~dry_run )
  => /\ { sed_log[k].i : k \in 1..Len(sed_log) }
          = C11_Starts(Len(SourceFiles(files0)))
     /\ \A k \in 1..Len(sed_log) :
          /\ sed_log[k].size = Len(Chunk(SourceFiles(files0), sed_log[k].i))
          /\ sed_log[k].size \in 1..chunk_size
          /\ k > 1 => sed_log[k - 1].i <= sed_log[k].i
     /\ \A s \in C11_Starts(Len(SourceFiles(files0))) :
          /\ C11_Runs(s) # << >>
          /\ C11_Runs(s)[1].use_extended
          /\ IF C11_Runs(s)[1].outcome = "nonzero"
             THEN /\ Len(C11_Runs(s)) = 2
                  /\ ~C11_Runs(s)[2].use_extended
             ELSE Len(C11_Runs(s)) = 1
     /\ source_processed
          = C11_Sum(C11_Starts(Len(SourceFiles(files0))), SourceFiles(files0))

\* a call on MaxSources files has returned: the first chunk timed out, the
\* second one failed once and then went through, and only it is counted
C11_TimeoutThenRetried ==
  /\ pc = "idle" /\ ncalls = 1 /\ sed_scripts = 1 /\ ~dry_run
  /\ Len(SourceFiles(files0)) = MaxSources
  /\ Len(sed_log) = 3
  /\ sed_log[1].i = 1 /\ sed_log[1].outcome = "timeout"
  /\ sed_log[2].i = 1 + chunk_size /\ sed_log[2].outcome = "nonzero"
  /\ sed_log[3].i = 1 + chunk_size /\ sed_log[3].outcome = "exit0"
  /\ source_processed = MaxSources - chunk_size

=============================================================================
